---- MODULE Spec2Model ----
(***************************************************************************)
(* href-checker: checkLinks (src/index.ts) as a state machine.             *)
(*                                                                         *)
(* The async generator checkLinks, the generators it delegates to          *)
(* (checkSamePageLinks, checkOffPageLinks, pmap) and the lanes that pmap   *)
(* starts (pmap.next running isLinkValid) run on one JavaScript thread:    *)
(* a step of the model is what runs between two suspension points.  The    *)
(* rendering engine (puppeteer) is the environment: every awaited call     *)
(* settles in a separate step whose outcome is chosen nondeterministically.*)
(***************************************************************************)
EXTENDS Integers, Sequences, FiniteSets, TLC

(***************************************************************************)
(* Bounds of the model.                                                    *)
(***************************************************************************)
\* Largest number of anchors (link occurrences) on the crawled page.
MaxAnchors == 3

(***************************************************************************)
(* Inputs.                                                                 *)
(***************************************************************************)
Categories == {"samePage", "sameSite", "offSite"}

\* Fragment links a page can carry; "#" is the bare fragment of length 1.
SamePageUniverse == <<"#", "#a", "#b", "#c">>
\* Absolute URLs a page can carry, with and without a fragment.
SameSiteUniverse == <<"https://s/1#f", "https://s/2", "https://s/3#g", "https://s/4">>
OffSiteUniverse == <<"https://o/1", "https://o/2#f", "https://o/3", "https://o/4#g">>

\* new URL(link).hash for the URLs above.
URLHash(link) ==
  IF link \in {"https://s/1#f", "https://o/2#f"} THEN "#f"
  ELSE IF link \in {"https://s/3#g", "https://o/4#g"} THEN "#g"
  ELSE ""

Min(a, b) == IF a < b THEN a ELSE b
Range(s) == {s[i] : i \in 1..Len(s)}

\* Lists of exactly n items of the universe u in which a link occurs for the
\* first time only after all links before it in u have occurred.
RECURSIVE ListsOfLen(_, _)
ListsOfLen(u, n) ==
  IF n = 0 THEN {<<>>}
  ELSE UNION {{Append(l, u[k]) : k \in 1..Min(Len(u), Cardinality(Range(l)) + 1)} :
              l \in ListsOfLen(u, n - 1)}

\* The raw link lists the three DOM queries can return for a page of at most
\* MaxAnchors anchors.
Pages ==
  UNION {UNION {{[samePage |-> a, sameSite |-> b, offSite |-> c] :
                   a \in ListsOfLen(SamePageUniverse, i) \cup
                         ListsOfLen(Tail(SamePageUniverse), i),
                   b \in ListsOfLen(SameSiteUniverse, j),
                   c \in UNION {ListsOfLen(OffSiteUniverse, k) : k \in 0..(MaxAnchors - i - j)}} :
                j \in 0..(MaxAnchors - i)} :
         i \in 0..MaxAnchors}

\* The options the caller passes to checkLinks (Partial<Options>): every
\* combination of the switches with a concurrency around the lower end of the
\* valid range and beyond both ends, and the largest valid concurrency with
\* the other options left to their defaults.
Concurrencies == {0, 1, 2, 101}
UserOptions ==
  {[samePage |-> f[1], sameSite |-> f[2], offSite |-> f[3], fragments |-> f[4],
    badContent |-> IF f[5] THEN "Error 500" ELSE "", concurrency |-> c] :
     f \in [1..5 -> BOOLEAN], c \in Concurrencies}
  \cup {[concurrency |-> 100]}

(***************************************************************************)
(* Options and their defaults.                                             *)
(***************************************************************************)
defaults ==
  [samePage |-> TRUE, sameSite |-> TRUE, offSite |-> TRUE, fragments |-> TRUE,
   cacheEnabled |-> FALSE, concurrency |-> 5, badContent |-> "",
   puppeteer |-> [timeout |-> 20000, waitUntil |-> "load"]]

\* { ...defaults, ...options }
Merge(d, o) == [k \in DOMAIN d \cup DOMAIN o |-> IF k \in DOMAIN o THEN o[k] ELSE d[k]]

(***************************************************************************)
(* Pure helpers.                                                           *)
(***************************************************************************)
\* A Map is the sequence of its <<key, value>> pairs in insertion order.
MapHas(m, k) == \E i \in 1..Len(m) : m[i][1] = k
MapGet(m, k) == (CHOOSE i \in 1..Len(m) : m[i][1] = k)
MapKeys(m) == [i \in 1..Len(m) |-> m[i][1]]
MapSet(m, k, v) ==
  IF MapHas(m, k) THEN [i \in 1..Len(m) |-> IF m[i][1] = k THEN <<k, v>> ELSE m[i]]
  ELSE Append(m, <<k, v>>)

\* count(items): each distinct item mapped to the number of its occurrences.
RECURSIVE countFrom(_, _)
countFrom(counts, items) ==
  IF items = <<>> THEN counts
  ELSE LET item == Head(items)
           cnt == IF MapHas(counts, item) THEN counts[MapGet(counts, item)][2] ELSE 0
       IN countFrom(MapSet(counts, item, cnt + 1), Tail(items))

\* Mutant: every distinct item is counted once.
countPresence(items) ==
  LET counts == countFrom(<<>>, items)
  IN [i \in 1..Len(counts) |-> <<counts[i][1], 1>>]

count(items) == countFrom(<<>>, items)

\* The lists getAllLinks counts: a disabled category is not queried and
\* contributes the empty list.
queried(page, options) ==
  [samePage |-> IF options.samePage THEN page.samePage ELSE <<>>,
   sameSite |-> IF options.sameSite THEN page.sameSite ELSE <<>>,
   offSite |-> IF options.offSite THEN page.offSite ELSE <<>>]

getAllLinks(lists) ==
  [samePage |-> count(lists.samePage), sameSite |-> count(lists.sameSite),
   offSite |-> count(lists.offSite)]

\* isFragmentValid: page.$eval resolves to true when an element matches and
\* rejects otherwise; a rejection is caught and gives false.
EvalOutcomes == {"match", "noMatch", "evalError"}

\* Mutant: only a query that evaluates without a match gives false.
isFragmentValidUnlessNoMatch(outcome) == outcome # "noMatch"

isFragmentValid(outcome) == outcome = "match"

(***************************************************************************)
(* isLinkValid: the outcome of one validation.                             *)
(***************************************************************************)
\* page.goto: rejects, resolves to null, or resolves to a response.
GotoOutcomes == {"reject", "null", "ok", "notOk"}
ResponseOk(resp) == resp = "ok"
ResponseStatus(resp) == IF resp = "ok" THEN 200 ELSE 404

\* Mutant: a navigation without a response counts as a missing page.
PageExistsOkOnly(resp) == ResponseOk(resp)

\* const pageExists = !response || response.ok();
PageExists(resp) == resp = "null" \/ ResponseOk(resp)

\* options.fragments && pageExists && url.hash && url.hash.length > 1
WantsFragment(options, link, resp) ==
  options.fragments /\ PageExists(resp) /\ URLHash(link) # "" /\ Len(URLHash(link)) > 1

\* return { pageExists, fragExists, status }; undefined members are absent.
Observation(resp, frag) ==
  LET base == [pageExists |-> PageExists(resp)]
      withFrag == IF frag = "undefined" THEN base
                  ELSE Merge(base, [fragExists |-> frag = "true"])
  IN IF resp = "null" THEN withFrag
     ELSE Merge(withFrag, [status |-> ResponseStatus(resp)])

\* catch (error) { return { error }; }
Failure(error) == [error |-> error]

(***************************************************************************)
(* State.                                                                  *)
(***************************************************************************)
VARIABLES
  opts,          \* checkLinks: the merged options
  gen,           \* checkLinks: where the generator is suspended
  phase,         \* checkLinks: the category being streamed
  browser,       \* the session: "none", "open", "closing", "closed"
  launches,      \* calls of puppeteer.launch
  closes,        \* calls of browser.close
  newPageCalls,  \* calls of browser.newPage
  response,      \* checkLinks: response, the outcome of the top-level page.goto
  caughtError,   \* checkLinks: caughtError
  raised,        \* the error the stream ended with, if any
  returned,      \* the consumer ended the stream with return()
  raw,           \* getAllLinks: the link lists the DOM queries returned
  links,         \* checkLinks: links, the three OccurrenceMaps
  spIdx,         \* checkSamePageLinks: position in links.samePage
  inputs,        \* pmap: inputs
  concurrency,   \* pmap: concurrency
  promises,      \* pmap: promises, with the lane behind each promise
  state,         \* pmap: state.value
  pos,           \* pmap: position of the for-of over promises
  entries,       \* the entries yielded to the consumer
  evaluated,     \* checkSamePageLinks: how the query of the entry on offer settled
  resolvedOrder  \* history: the inputs whose promise resolved, in that order

vars == <<opts, gen, phase, browser, launches, closes, newPageCalls, response, caughtError,
          raised, returned, raw, links, spIdx, inputs, concurrency, promises, state,
          pos, entries, evaluated, resolvedOrder>>

NoLinks == [samePage |-> <<>>, sameSite |-> <<>>, offSite |-> <<>>]
Pending == [pending |-> TRUE]

Init ==
  /\ opts \in {Merge(defaults, options) : options \in UserOptions}
  /\ gen = "start"
  /\ phase = "none"
  /\ browser = "none"
  /\ launches = 0
  /\ closes = 0
  /\ newPageCalls = 0
  /\ response = "none"
  /\ caughtError = "none"
  /\ raised = "none"
  /\ returned = FALSE
  /\ raw = NoLinks
  /\ links = NoLinks
  /\ spIdx = 0
  /\ inputs = <<>>
  /\ concurrency = 0
  /\ promises = <<>>
  /\ state = 0
  /\ pos = 0
  /\ entries = <<>>
  /\ evaluated = "none"
  /\ resolvedOrder = <<>>

(***************************************************************************)
(* pmap.                                                                   *)
(***************************************************************************)
\* next(state) up to its first suspension: the lane reads inputs[state.value]
\* and calls fn, which parses the link and requests a page context.
next(ins, v) ==
  [input |-> ins[v + 1], pc |-> "newPage", page |-> "none", resp |-> "none",
   eval |-> "none", frag |-> "undefined", body |-> "unread", out |-> Pending]

\* concurrency = Math.min(concurrency, inputs.length)
pmapConcurrency(limit, ins) == Min(limit, Len(ins))

\* Mutant: the loop starts a lane for every input, ignoring concurrency.
RECURSIVE pmapLoopAll(_, _, _, _)
pmapLoopAll(ins, ps, v, c) ==
  IF v < Len(ins) THEN pmapLoopAll(ins, Append(ps, next(ins, v)), v + 1, c)
  ELSE [promises |-> ps, state |-> v]

\* for (; state.value < concurrency; state.value += 1) promises.push(next(state))
RECURSIVE pmapLoop(_, _, _, _)
pmapLoop(ins, ps, v, c) ==
  IF v < c THEN pmapLoop(ins, Append(ps, next(ins, v)), v + 1, c)
  ELSE [promises |-> ps, state |-> v]

\* Mutant: a lane whose fn has resolved leaves the cursor where it is.
laneAdvanceNone(v) == v

\* state.value += 1 of a lane whose fn has resolved
laneAdvance(v) == v + 1

\* Mutant: the next lane's promise is put in front of the others.
laneContinueFirst(ins, ps, v) ==
  IF v < Len(ins) THEN <<next(ins, v)>> \o ps ELSE ps

\* if (state.value < inputs.length) promises.push(next(state))
laneContinue(ins, ps, v) ==
  IF v < Len(ins) THEN Append(ps, next(ins, v)) ELSE ps

InFlight(p) == p.pc \in {"newPage", "goto", "frag", "body", "close"}

(***************************************************************************)
(* checkLinks: where the generator suspends next.                          *)
(***************************************************************************)
\* The generator's control state and the pmap it is consuming.
Here ==
  [gen |-> gen, phase |-> phase, spIdx |-> spIdx, inputs |-> inputs,
   concurrency |-> concurrency, promises |-> promises, state |-> state, pos |-> pos]

\* Mutant: the generator ends without closing the browser.
FinallySkipped == [Here EXCEPT !.gen = "done"]

\* finally { await browser.close(); ... }
Finally == [Here EXCEPT !.gen = "closing"]

\* pmap(fn, uniqueLinks, options.concurrency) up to its first await.
pmapStart(cat, ins, limit) ==
  LET c == pmapConcurrency(limit, ins)
      started == pmapLoop(ins, <<>>, 0, c)
  IN [gen |-> "awaitPromise", phase |-> cat, spIdx |-> spIdx, inputs |-> ins,
      concurrency |-> c, promises |-> started.promises, state |-> started.state,
      pos |-> 1]

\* Mutant: the offSite loop comes before the sameSite loop.
nextCategorySwapped(cat) ==
  IF cat = "samePage" THEN "offSite"
  ELSE IF cat = "offSite" THEN "sameSite"
  ELSE "end"

\* The order of the three for-await loops of checkLinks.
nextCategory(cat) ==
  IF cat = "samePage" THEN "sameSite"
  ELSE IF cat = "sameSite" THEN "offSite"
  ELSE "end"

\* checkOffPageLinks(links[cat], ...): a category without links ends at once
\* and the next one starts; after the last one the try block ends.
RECURSIVE EnterOffPage(_, _)
EnterOffPage(cat, lk) ==
  IF cat \notin {"sameSite", "offSite"} THEN Finally
  ELSE LET p == pmapStart(cat, MapKeys(lk[cat]), opts.concurrency)
       IN IF Len(p.promises) >= 1 THEN p ELSE EnterOffPage(nextCategory(cat), lk)

\* Mutant: checkSamePageLinks checks every fragment, however short.
SamePageFromAny(lk, idx) ==
  IF idx <= Len(lk.samePage)
  THEN [Here EXCEPT !.gen = "fragCheck", !.phase = "samePage", !.spIdx = idx]
  ELSE EnterOffPage(nextCategory("samePage"), lk)

\* checkSamePageLinks from position idx: links of length <= 1 are skipped.
SamePageFrom(lk, idx) ==
  LET rest == {j \in idx..Len(lk.samePage) : Len(lk.samePage[j][1]) > 1}
  IN IF rest # {}
     THEN [Here EXCEPT !.gen = "fragCheck", !.phase = "samePage",
                       !.spIdx = CHOOSE j \in rest : \A k \in rest : j <= k]
     ELSE EnterOffPage(nextCategory("samePage"), lk)

\* The for-of of pmap after a yield, then the next category.
AfterYield ==
  IF phase = "samePage" THEN SamePageFrom(links, spIdx + 1)
  ELSE IF pos + 1 <= Len(promises) THEN [Here EXCEPT !.gen = "awaitPromise", !.pos = pos + 1]
  ELSE EnterOffPage(nextCategory(phase), links)

\* The generator moves to the suspension point t; entering the finally block
\* calls browser.close(), starting a pmap calls browser.newPage() per lane.
MoveTo(t) ==
  /\ gen' = t.gen
  /\ phase' = t.phase
  /\ spIdx' = t.spIdx
  /\ inputs' = t.inputs
  /\ concurrency' = t.concurrency
  /\ promises' = t.promises
  /\ state' = t.state
  /\ pos' = t.pos
  /\ browser' = IF t.gen = "closing" THEN "closing" ELSE browser
  /\ closes' = IF t.gen = "closing" THEN closes + 1 ELSE closes
  /\ newPageCalls' = IF t.gen = "awaitPromise" /\ t.phase # phase
                     THEN newPageCalls + Len(t.promises) ELSE newPageCalls

\* Mutant: only the lower end of the range is checked.
InvalidConcurrencyLow(c) == c < 1

\* if (opts.concurrency < 1 || opts.concurrency > 100) throw ...
InvalidConcurrency(c) == c < 1 \/ c > 100

\* Mutant: a missing response is taken for a loaded page.
NavigationFailedStatus(resp) == resp # "null" /\ ~ResponseOk(resp)

\* if (!response || !response.ok()) throw ...
NavigationFailed(resp) == resp = "null" \/ ~ResponseOk(resp)

\* catch (error) { caughtError = error; } finally { await browser.close(); ... }
Catch(error) ==
  /\ caughtError' = error
  /\ MoveTo(Finally)

(***************************************************************************)
(* checkLinks: the consumer and the steps of the generator.                *)
(***************************************************************************)
\* The consumer calls next().
Pull ==
  \/ /\ gen = "start"
     /\ IF InvalidConcurrency(opts.concurrency)
        THEN /\ gen' = "done"
             /\ raised' = "ConfigurationError"
             /\ UNCHANGED launches
        ELSE /\ gen' = "launch"
             /\ launches' = launches + 1
             /\ UNCHANGED raised
     /\ UNCHANGED <<opts, evaluated, resolvedOrder, response, phase, browser, closes,
                    newPageCalls, caughtError, returned, raw, links, spIdx, inputs,
                    concurrency, promises, state, pos, entries>>
  \/ /\ gen = "yield"
     /\ MoveTo(AfterYield)
     /\ evaluated' = "none"
     /\ UNCHANGED <<opts, resolvedOrder, response, launches, caughtError, raised,
                    returned, raw, links, entries>>

\* The consumer ends the stream early with return().
Return ==
  \/ /\ gen = "start"
     /\ gen' = "done"
     /\ returned' = TRUE
     /\ UNCHANGED <<opts, evaluated, resolvedOrder, response, phase, browser, launches,
                    closes, newPageCalls, caughtError, raised, raw, links, spIdx,
                    inputs, concurrency, promises, state, pos, entries>>
  \/ /\ gen = "yield"
     /\ returned' = TRUE
     /\ MoveTo(Finally)
     /\ evaluated' = "none"
     /\ UNCHANGED <<opts, resolvedOrder, response, launches, caughtError, raised, raw,
                    links, entries>>

\* const browser = await puppeteer.launch(); then browser.newPage() is called.
LaunchSettle ==
  /\ gen = "launch"
  /\ \E outcome \in {"resolve", "reject"} :
       IF outcome = "resolve"
       THEN /\ browser' = "open"
            /\ gen' = "newPage"
            /\ newPageCalls' = newPageCalls + 1
            /\ UNCHANGED raised
       ELSE /\ gen' = "done"
            /\ raised' = "LaunchError"
            /\ UNCHANGED <<browser, newPageCalls>>
  /\ UNCHANGED <<opts, evaluated, resolvedOrder, response, phase, launches, closes,
                 caughtError, returned, raw, links, spIdx, inputs, concurrency,
                 promises, state, pos, entries>>

\* const page = await browser.newPage(); then page.setCacheEnabled is called.
MainNewPageSettle ==
  /\ gen = "newPage"
  /\ \E outcome \in {"resolve", "reject"} :
       IF outcome = "resolve"
       THEN /\ gen' = "setCache"
            /\ UNCHANGED <<phase, browser, closes, newPageCalls, caughtError, spIdx,
                           inputs, concurrency, promises, state, pos>>
       ELSE Catch("NewPageError")
  /\ UNCHANGED <<opts, evaluated, resolvedOrder, response, launches, raised, returned,
                 raw, links, entries>>

\* await page.setCacheEnabled(...); then page.goto is called.
SetCacheSettle ==
  /\ gen = "setCache"
  /\ \E outcome \in {"resolve", "reject"} :
       IF outcome = "resolve"
       THEN /\ gen' = "goto"
            /\ UNCHANGED <<phase, browser, closes, newPageCalls, caughtError, spIdx,
                           inputs, concurrency, promises, state, pos>>
       ELSE Catch("SetCacheError")
  /\ UNCHANGED <<opts, evaluated, resolvedOrder, response, launches, raised, returned,
                 raw, links, entries>>

\* const response = await page.goto(url.href, ...); a missing or non-ok
\* response throws, otherwise getAllLinks is called.
TopGotoSettle ==
  /\ gen = "goto"
  /\ \E resp \in GotoOutcomes :
     /\ response' = resp
     /\ IF resp = "reject" THEN Catch("NavigationRejected")
        ELSE IF NavigationFailed(resp) THEN Catch("FailedToNavigate")
        ELSE /\ gen' = "getLinks"
             /\ UNCHANGED <<phase, browser, closes, newPageCalls, caughtError, spIdx,
                            inputs, concurrency, promises, state, pos>>
  /\ UNCHANGED <<opts, evaluated, resolvedOrder, launches, raised, returned, raw, links,
                 entries>>

\* const links = await getAllLinks(page, opts); then the samePage category.
GetAllLinksSettle ==
  /\ gen = "getLinks"
  /\ \/ /\ Catch("QueryError")
        /\ UNCHANGED <<raw, links>>
     \/ \E page \in Pages :
          /\ raw' = queried(page, opts)
          /\ links' = getAllLinks(queried(page, opts))
          /\ MoveTo(SamePageFrom(getAllLinks(queried(page, opts)), 1))
          /\ UNCHANGED caughtError
  /\ UNCHANGED <<opts, evaluated, resolvedOrder, response, launches, raised, returned,
                 entries>>

\* const fragExists = await isFragmentValid(link, page); yield {...}
SamePageFragSettle ==
  /\ gen = "fragCheck"
  /\ \E outcome \in EvalOutcomes :
       /\ evaluated' = outcome
       /\ entries' = Append(entries,
                            [type |-> "samePage",
                             input |-> [link |-> links.samePage[spIdx][1],
                                        count |-> links.samePage[spIdx][2]],
                             output |-> [pageExists |-> TRUE,
                                         fragExists |-> isFragmentValid(outcome)]])
  /\ gen' = "yield"
  /\ UNCHANGED <<opts, resolvedOrder, response, phase, browser, launches, closes,
                 newPageCalls, caughtError, raised, returned, raw, links, spIdx, inputs,
                 concurrency, promises, state, pos>>

\* yield await promise; in checkOffPageLinks the count is re-attached.
PromiseSettled ==
  /\ gen = "awaitPromise"
  /\ promises[pos].pc = "resolved"
  /\ LET link == promises[pos].input
     IN entries' = Append(entries,
                          [type |-> phase,
                           input |-> [link |-> link,
                                      count |-> links[phase][MapGet(links[phase], link)][2]],
                           output |-> promises[pos].out])
  /\ gen' = "yield"
  /\ UNCHANGED <<opts, evaluated, resolvedOrder, response, phase, browser, launches,
                 closes, newPageCalls, caughtError, raised, returned, raw, links, spIdx,
                 inputs, concurrency, promises, state, pos>>

\* await browser.close(); if (caughtError) throw caughtError;
BrowserCloseSettle ==
  /\ gen = "closing"
  /\ \E outcome \in {"resolve", "reject"} :
       raised' = IF outcome = "reject" THEN "CloseError" ELSE caughtError
  /\ browser' = "closed"
  /\ gen' = "done"
  /\ UNCHANGED <<opts, evaluated, resolvedOrder, response, phase, launches, closes,
                 newPageCalls, caughtError, returned, raw, links, spIdx, inputs,
                 concurrency, promises, state, pos, entries>>

(***************************************************************************)
(* The lanes of pmap: each runs isLinkValid for the input it claimed.      *)
(***************************************************************************)
Lanes == 1..Len(promises)

genVars == <<opts, evaluated, gen, phase, browser, launches, closes, response, caughtError, raised,
             returned, raw, links, spIdx, inputs, concurrency, pos, entries>>

\* A lane at the suspension point pc with the outcome out; the locals of the
\* try block (response, fragExists) are out of scope.
Settled(lane, pc, out) ==
  [lane EXCEPT !.pc = pc, !.out = out, !.resp = "none", !.eval = "none",
               !.frag = "undefined"]

\* return { pageExists, fragExists, status }; finally { await page.close(); }
\* The lane keeps what the observation was computed from until it resolves.
ClosePage(lane, out) == [lane EXCEPT !.pc = "close", !.out = out]

\* catch (error) { return { error }; } finally { await page.close(); }
Fail(lane, error) == Settled(lane, "close", Failure(error))

\* After the fragment check: read the body when badContent is configured,
\* else return the observation.
AfterFragment(lane, resp, frag) ==
  IF opts.badContent # ""
  THEN [lane EXCEPT !.pc = "body", !.resp = resp, !.frag = frag]
  ELSE ClosePage([lane EXCEPT !.resp = resp, !.frag = frag], Observation(resp, frag))

\* const html = await page.$eval("body", ...) settles: a rejection and a body
\* in which html.search(options.badContent) finds a match both end in the
\* catch block, otherwise the observation is returned.
BodyOutcomes == {"reject", "found", "clean"}

\* Mutant: bad content fails the validation only of a page that exists.
AfterBodyOfExistingPage(lane, outcome) ==
  IF outcome = "reject" THEN Fail([lane EXCEPT !.body = outcome], "QueryError")
  ELSE IF outcome = "found" /\ PageExists(lane.resp)
       THEN Fail([lane EXCEPT !.body = outcome], "BadContent")
  ELSE ClosePage([lane EXCEPT !.body = outcome], Observation(lane.resp, lane.frag))

AfterBody(lane, outcome) ==
  IF outcome = "reject" THEN Fail([lane EXCEPT !.body = outcome], "QueryError")
  ELSE IF outcome = "found" THEN Fail([lane EXCEPT !.body = outcome], "BadContent")
  ELSE ClosePage([lane EXCEPT !.body = outcome], Observation(lane.resp, lane.frag))

\* Mutant: the page context stays open when isLinkValid returns.
releasePageNever(lane) == lane

\* await page.close() has resolved: the page context is released.
releasePage(lane) == [lane EXCEPT !.page = "closed"]

\* const page = await browser.newPage(); a rejection leaves isLinkValid
\* rejected, so the lane never resolves its promise.
LaneNewPageSettle(i) ==
  /\ promises[i].pc = "newPage"
  /\ \E outcome \in {"resolve", "reject"} :
       /\ outcome = "resolve" => browser # "closed"
       /\ promises' = [promises EXCEPT ![i] =
            IF outcome = "resolve" THEN [@ EXCEPT !.pc = "goto", !.page = "open"]
            ELSE Settled(@, "stuck", Pending)]
  /\ UNCHANGED <<genVars, state, newPageCalls, resolvedOrder>>

\* const response = await page.goto(link, ...); up to the next await.
LaneGotoSettle(i) ==
  /\ promises[i].pc = "goto"
  /\ \E resp \in GotoOutcomes :
       promises' = [promises EXCEPT ![i] =
         IF resp = "reject" THEN Fail(@, "NavigationError")
         ELSE IF WantsFragment(opts, @.input, resp) THEN [@ EXCEPT !.pc = "frag", !.resp = resp]
         ELSE AfterFragment(@, resp, "undefined")]
  /\ UNCHANGED <<genVars, state, newPageCalls, resolvedOrder>>

\* fragExists = await isFragmentValid(url.hash, page);
LaneFragSettle(i) ==
  /\ promises[i].pc = "frag"
  /\ \E outcome \in EvalOutcomes :
       promises' = [promises EXCEPT ![i] =
         AfterFragment([@ EXCEPT !.eval = outcome], @.resp,
                       IF isFragmentValid(outcome) THEN "true" ELSE "false")]
  /\ UNCHANGED <<genVars, state, newPageCalls, resolvedOrder>>

\* const html = await page.$eval("body", ...); the search for badContent.
LaneBodySettle(i) ==
  /\ promises[i].pc = "body"
  /\ \E outcome \in BodyOutcomes :
       promises' = [promises EXCEPT ![i] = AfterBody(@, outcome)]
  /\ UNCHANGED <<genVars, state, newPageCalls, resolvedOrder>>

\* await page.close() settles; isLinkValid returns and the lane goes on:
\* resolve({ input, output }); state.value += 1; maybe the next lane.  A
\* rejection leaves isLinkValid rejected and the promise pending.
LaneClosed(i) ==
  /\ promises[i].pc = "close"
  /\ \E outcome \in {"resolve", "reject"} :
       IF outcome = "reject"
       THEN /\ promises' = [promises EXCEPT ![i] = Settled(@, "stuck", Pending)]
            /\ UNCHANGED <<state, newPageCalls>>
       ELSE LET resolved == [promises EXCEPT ![i] = releasePage(Settled(@, "resolved", @.out))]
                v == laneAdvance(state)
            IN /\ state' = v
               /\ promises' = laneContinue(inputs, resolved, v)
               /\ newPageCalls' = newPageCalls + (Len(promises') - Len(promises))
  /\ UNCHANGED genVars

LaneCloseSettle(i) == LaneClosed(i) /\ UNCHANGED resolvedOrder

\* The same step, with the input of a promise that resolves added to the
\* history of resolutions.
LaneCloseRecorded(i) ==
  /\ LaneClosed(i)
  /\ resolvedOrder' = IF promises'[i].pc = "resolved"
                      THEN Append(resolvedOrder, promises[i].input)
                      ELSE resolvedOrder

Next ==
  \/ Pull
  \/ Return
  \/ LaunchSettle
  \/ MainNewPageSettle
  \/ SetCacheSettle
  \/ TopGotoSettle
  \/ GetAllLinksSettle
  \/ SamePageFragSettle
  \/ PromiseSettled
  \/ BrowserCloseSettle
  \/ \E i \in Lanes : LaneNewPageSettle(i)
  \/ \E i \in Lanes : LaneGotoSettle(i)
  \/ \E i \in Lanes : LaneFragSettle(i)
  \/ \E i \in Lanes : LaneBodySettle(i)
  \/ \E i \in Lanes : LaneCloseSettle(i)

Spec == Init /\ [][Next]_vars

\* The program with the history of resolutions kept.
RecordedNext ==
  \/ Pull
  \/ Return
  \/ LaunchSettle
  \/ MainNewPageSettle
  \/ SetCacheSettle
  \/ TopGotoSettle
  \/ GetAllLinksSettle
  \/ SamePageFragSettle
  \/ PromiseSettled
  \/ BrowserCloseSettle
  \/ \E i \in Lanes : LaneNewPageSettle(i)
  \/ \E i \in Lanes : LaneGotoSettle(i)
  \/ \E i \in Lanes : LaneFragSettle(i)
  \/ \E i \in Lanes : LaneBodySettle(i)
  \/ \E i \in Lanes : LaneCloseRecorded(i)

RecordedSpec == Init /\ [][RecordedNext]_vars

\* The consumer keeps pulling and every call into the rendering engine that
\* is awaited settles: no step that stays possible is put off forever.
Fairness ==
  /\ WF_vars(Pull)
  /\ WF_vars(LaunchSettle)
  /\ WF_vars(MainNewPageSettle)
  /\ WF_vars(SetCacheSettle)
  /\ WF_vars(TopGotoSettle)
  /\ WF_vars(GetAllLinksSettle)
  /\ WF_vars(SamePageFragSettle)
  /\ WF_vars(PromiseSettled)
  /\ WF_vars(BrowserCloseSettle)
  /\ WF_vars(\E i \in Lanes : LaneNewPageSettle(i))
  /\ WF_vars(\E i \in Lanes : LaneGotoSettle(i))
  /\ WF_vars(\E i \in Lanes : LaneFragSettle(i))
  /\ WF_vars(\E i \in Lanes : LaneBodySettle(i))
  /\ WF_vars(\E i \in Lanes : LaneCloseSettle(i))

LiveSpec == Init /\ [][Next]_vars /\ Fairness

TypeOK ==
  /\ gen \in {"start", "launch", "newPage", "setCache", "goto", "getLinks", "fragCheck",
              "yield", "awaitPromise", "closing", "done"}
  /\ browser \in {"none", "open", "closing", "closed"}
  /\ state \in 0..(2 * MaxAnchors)
  /\ Len(promises) <= MaxAnchors

(***************************************************************************)
(* Vocabulary of the properties.                                           *)
(***************************************************************************)
OffPage == {"sameSite", "offSite"}

\* The positions of the entries yielded for a link of a category.
EntriesOf(cat, link) ==
  {i \in 1..Len(entries) : entries[i].type = cat /\ entries[i].input.link = link}

\* What checkOffPageLinks yielded for the category being streamed.
IsOfPhase(e) == e.type = phase
Yielded == SelectSeq(entries, IsOfPhase)
YieldedLinks == [i \in 1..Len(Yielded) |-> Yielded[i].input.link]

\* The consumer pulled the stream until the try block of checkLinks ended.
Exhausted == gen = "done" /\ ~returned /\ caughtError = "none"

\* The consumer pulled the last pmap of the run until its for-of ended.
PmapExhausted ==
  gen \in {"closing", "done"} /\ ~returned /\ caughtError = "none" /\ phase \in OffPage

\* The fn invocations that have started and not yet settled.
InFlightLanes == {i \in Lanes : InFlight(promises[i])}

CategoryRank(cat) == IF cat = "samePage" THEN 1 ELSE IF cat = "sameSite" THEN 2 ELSE 3

(***************************************************************************)
(* C1: when the stream is pulled to exhaustion on a run that passed the    *)
(* configuration check and the top-level navigation, every distinct link   *)
(* longer than 1 character of every enabled category has exactly one       *)
(* entry.  The code violates it when a category has more distinct links    *)
(* than the concurrency limit.                                             *)
(***************************************************************************)
C1_OneEntryPerDistinctLink ==
  Exhausted =>
    \A cat \in Categories :
      \A link \in Range(raw[cat]) :
        Len(link) > 1 => Cardinality(EntriesOf(cat, link)) = 1

(***************************************************************************)
(* C2: pmap pulled to exhaustion yields exactly N pairs and every input    *)
(* appears in exactly one of them.  The code violates it when N exceeds    *)
(* the limit: the input at position limit is never claimed.                *)
(***************************************************************************)
C2_PmapYieldsEveryInputOnce ==
  PmapExhausted =>
    /\ Len(Yielded) = Len(inputs)
    /\ \A k \in 1..Len(inputs) :
         Cardinality({i \in 1..Len(Yielded) : YieldedLinks[i] = inputs[k]}) = 1

(***************************************************************************)
(* C3: in every reachable state the number of fn invocations in flight is  *)
(* at most min(limit, N).                                                  *)
(***************************************************************************)
C3_PeakConcurrencyBounded ==
  Cardinality(InFlightLanes) <= Min(opts.concurrency, Len(inputs))

\* Two lanes in flight under a limit of 2 with three inputs.
C3_Witness ==
  /\ opts.concurrency = 2
  /\ Len(inputs) = 3
  /\ Cardinality(InFlightLanes) = 2

(***************************************************************************)
(* C4: once the session is acquired it is released exactly once on every   *)
(* exit path of the stream (exhaustion, error, return() by the consumer):  *)
(* browser.close is never called twice, and when the stream has ended the   *)
(* session is closed.                                                      *)
(***************************************************************************)
C4_SessionReleasedExactlyOnce ==
  /\ closes <= 1
  /\ browser \in {"closing", "closed"} <=> closes = 1
  /\ (gen = "done" /\ browser # "none") => (closes = 1 /\ browser = "closed")

\* The consumer ended the stream early, after an entry, and the session is closed.
C4_Witness ==
  /\ gen = "done"
  /\ returned
  /\ entries # <<>>
  /\ \E i \in Lanes : InFlight(promises[i])
  /\ browser = "closed"
  /\ closes = 1

(***************************************************************************)
(* C5: a failure while checking one sameSite or offSite link never aborts  *)
(* the run: the link's entry carries output.error, every distinct link     *)
(* gets its entry and the stream ends without raising.  The code violates  *)
(* it through the input pmap never claims (C2).                            *)
(***************************************************************************)
LinkFailed(cat, link) ==
  \/ \E i \in EntriesOf(cat, link) : "error" \in DOMAIN entries[i].output
  \/ /\ cat = phase
     /\ \E i \in Lanes : promises[i].input = link /\ "error" \in DOMAIN promises[i].out

C5_LinkFailureNeverAbortsRun ==
  (/\ gen = "done"
   /\ ~returned
   /\ raised # "CloseError"
   /\ \E cat \in OffPage : \E link \in Range(raw[cat]) : LinkFailed(cat, link))
  => /\ raised = "none"
     /\ caughtError = "none"
     /\ \A cat \in OffPage :
          \A link \in Range(raw[cat]) :
            /\ Cardinality(EntriesOf(cat, link)) = 1
            /\ LinkFailed(cat, link) =>
                 \A i \in EntriesOf(cat, link) : "error" \in DOMAIN entries[i].output

(***************************************************************************)
(* C6: if the top-level navigation rejects, returns no response or returns *)
(* a non-success status, no entry is ever yielded, the session is released *)
(* exactly once, the stream ends with an error, and the error is raised    *)
(* only after the session has been released.                               *)
(***************************************************************************)
C6_TopLevelNavigationFailure ==
  response \in {"reject", "null", "notOk"} =>
    /\ entries = <<>>
    /\ closes = 1
    /\ raised # "none" => browser = "closed"
    /\ gen = "done" => (raised # "none" /\ browser = "closed")
    /\ gen \in {"closing", "done"}

\* The top-level page returned no response and the stream ended with the error.
C6_Witness ==
  /\ response = "null"
  /\ gen = "done"
  /\ raised = "FailedToNavigate"
  /\ browser = "closed"

(***************************************************************************)
(* C7: with a merged concurrency below 1 or above 100 no session is ever   *)
(* launched, no page is ever opened and no entry is yielded; the first     *)
(* pull ends the stream with the configuration error.                      *)
(***************************************************************************)
C7_InvalidConcurrencyFailsFirst ==
  (opts.concurrency < 1 \/ opts.concurrency > 100) =>
    /\ launches = 0
    /\ newPageCalls = 0
    /\ browser = "none"
    /\ entries = <<>>
    /\ gen \in {"start", "done"}
    /\ (gen = "done" /\ ~returned) => raised = "ConfigurationError"

\* A concurrency of 101 ended the stream with the configuration error.
C7_Witness ==
  /\ opts.concurrency = 101
  /\ gen = "done"
  /\ raised = "ConfigurationError"

(***************************************************************************)
(* C8: with a limit of 1 the inputs of pmap's output, in order, are the    *)
(* input sequence.  The code violates it for every input sequence of       *)
(* length 2 or more, through the input pmap never claims (C2).             *)
(***************************************************************************)
C8_LimitOneKeepsInputOrder ==
  (PmapExhausted /\ opts.concurrency = 1) => YieldedLinks = inputs

C10_CategoryOrder ==
  \A i, j \in 1..Len(entries) :
    i < j => CategoryRank(entries[i].type) <= CategoryRank(entries[j].type)

\* One entry of each category has been yielded.
C10_Witness ==
  {entries[i].type : i \in 1..Len(entries)} = Categories

(***************************************************************************)
(* C11.  The order of the entries of an off-page category.                 *)
(***************************************************************************)
\* The position of a link among the inputs of its category's pmap.
InputIndex(cat, link) == MapGet(links[cat], link)

\* The position of an input in the history of resolutions, 0 if not resolved.
ResolvedAt(link) ==
  IF \E k \in 1..Len(resolvedOrder) : resolvedOrder[k] = link
  THEN CHOOSE k \in 1..Len(resolvedOrder) : resolvedOrder[k] = link
  ELSE 0

\* C11 as stated: within sameSite and offSite the entries come in completion
\* order: when the validation of A resolved before that of B, the entry of A
\* is yielded before the entry of B.
C11_CompletionOrder ==
  \A j \in 1..Len(entries) :
    entries[j].type \in OffPage =>
      \A a \in Range(MapKeys(links[entries[j].type])) :
        (ResolvedAt(a) # 0 /\ ResolvedAt(a) < ResolvedAt(entries[j].input.link))
          => \E i \in 1..(j - 1) :
               entries[i].type = entries[j].type /\ entries[i].input.link = a

\* C11 amended: within sameSite and offSite the entries come in the order
\* of their links among the inputs (the order in which the lanes registered
\* their promises), whichever validation resolved first.
C11_InputOrder ==
  \A i, j \in 1..Len(entries) :
    (i < j /\ entries[i].type \in OffPage /\ entries[i].type = entries[j].type)
      => InputIndex(entries[i].type, entries[i].input.link)
           < InputIndex(entries[j].type, entries[j].input.link)

\* Two entries of a category were yielded in input order although the later
\* input resolved first.
C11_Witness ==
  \E i, j \in 1..Len(entries) :
    /\ i < j
    /\ entries[i].type \in OffPage
    /\ entries[i].type = entries[j].type
    /\ ResolvedAt(entries[j].input.link) # 0
    /\ ResolvedAt(entries[j].input.link) < ResolvedAt(entries[i].input.link)

(***************************************************************************)
(* C12.  The observation of a validation that ended without error.         *)
(***************************************************************************)
\* The lanes whose isLinkValid has computed an observation and is closing its
\* page; such a lane still holds the response the observation came from.
Observed == {i \in Lanes : promises[i].pc = "close" /\ "pageExists" \in DOMAIN promises[i].out}

\* C12: an observation is a fixed function of the navigation result and the
\* configuration: pageExists holds exactly when there was no response or the
\* response was ok; status is present exactly when there was a response and
\* is that response's status; fragExists is present exactly when fragments
\* are enabled, the link's fragment is longer than one character and
\* pageExists holds.
C12_ObservationIsFunction ==
  \A i \in Observed :
    LET p == promises[i] IN
    /\ p.resp \in {"null", "ok", "notOk"}
    /\ p.out.pageExists = (p.resp \in {"null", "ok"})
    /\ ("status" \in DOMAIN p.out) = (p.resp # "null")
    /\ p.resp = "ok" => p.out.status = 200
    /\ p.resp = "notOk" => p.out.status = 404
    /\ ("fragExists" \in DOMAIN p.out)
         = (opts.fragments /\ Len(URLHash(p.input)) > 1 /\ p.out.pageExists)
    /\ DOMAIN p.out \subseteq {"pageExists", "status", "fragExists"}

\* A link with a fragment answered 404 while fragments are enabled: the
\* observation has pageExists false, the status, and no fragExists.
C12_Witness ==
  \E i \in Observed :
    /\ opts.fragments
    /\ Len(URLHash(promises[i].input)) > 1
    /\ promises[i].resp = "notOk"
    /\ promises[i].out = [pageExists |-> FALSE, status |-> 404]

RECURSIVE Distinct(_)
Distinct(list) ==
  IF list = <<>> THEN <<>>
  ELSE LET IsOther(x) == x # Head(list)
       IN <<Head(list)>> \o Distinct(SelectSeq(Tail(list), IsOther))

IsLongFragment(link) == Len(link) > 1
IsSamePage(e) == e.type = "samePage"
SamePageEntries == SelectSeq(entries, IsSamePage)

\* The samePage loop ran to its end.
SamePageDone ==
  \/ phase \in OffPage
  \/ gen \in {"closing", "done"} /\ ~returned /\ caughtError = "none"

\* C14: the samePage phase yields, in order of first discovery, exactly one
\* entry per distinct fragment longer than one character, each with
\* pageExists true; a fragment of length <= 1 is neither checked nor emitted.
C14_SamePageEntries ==
  LET want == SelectSeq(Distinct(raw.samePage), IsLongFragment)
      got == [i \in 1..Len(SamePageEntries) |-> SamePageEntries[i].input.link]
  IN /\ Len(got) <= Len(want)
     /\ got = SubSeq(want, 1, Len(got))
     /\ SamePageDone => got = want
     /\ \A i \in 1..Len(SamePageEntries) : SamePageEntries[i].output.pageExists
     /\ gen = "fragCheck" => IsLongFragment(links.samePage[spIdx][1])

\* A page with the bare fragment "#" among its same-page links, of which the
\* two longer ones got their entries.
C14_Witness ==
  /\ SamePageDone
  /\ "#" \in Range(raw.samePage)
  /\ Len(SamePageEntries) = 2

(***************************************************************************)
(* C15.  Occurrence counts.                                                *)
(***************************************************************************)
\* How often a link occurs in the raw list of a category.
Occurrences(cat, link) ==
  Cardinality({k \in 1..Len(raw[cat]) : raw[cat][k] = link})

\* C15: the count of every yielded entry is the number of occurrences of its
\* link in the raw link list of its category.
C15_CountIsOccurrences ==
  \A i \in 1..Len(entries) :
    entries[i].input.count = Occurrences(entries[i].type, entries[i].input.link)

\* An off-page link that occurs twice on the page got its entry, after the
\* entry of a same-page fragment that occurs once.
C15_Witness ==
  \E i, j \in 1..Len(entries) :
    /\ entries[i].type = "samePage" /\ entries[i].input.count = 1
    /\ entries[j].type \in OffPage /\ entries[j].input.count = 2

(***************************************************************************)
(* C16.  Failures of a validation and the scheduler.                       *)
(***************************************************************************)
\* C16: isLinkValid never raises through the scheduler: whichever of its
\* steps fails, the invocation resolves with a failure value, so no lane is
\* left with a promise that can never resolve.
C16_ValidatorNeverRaises ==
  \A i \in Lanes : promises[i].pc # "stuck"

(***************************************************************************)
(* C17.  Page contexts of the validations.                                 *)
(***************************************************************************)
\* The lanes whose page context is open.
OpenPages == {i \in Lanes : promises[i].page = "open"}

\* Every entry of the category being streamed has been yielded.
AllYielded == phase \in OffPage /\ gen = "yield" /\ pos = Len(promises)

\* C17: the page context isLinkValid opened is released before its outcome
\* is returned, on every path; so the open page contexts of the validations
\* never exceed min(concurrency, N) and there is none when the stream of a
\* category is exhausted.
C17_PageContextsReleased ==
  /\ \A i \in Lanes : promises[i].pc = "resolved" => promises[i].page = "closed"
  /\ Cardinality(OpenPages) <= Min(opts.concurrency, Len(inputs))
  /\ (AllYielded \/ PmapExhausted) => OpenPages = {}

\* A validation that failed has returned with its page context released
\* while another one has its page context open.
C17_Witness ==
  \E i, j \in Lanes :
    /\ promises[i].pc = "resolved"
    /\ "error" \in DOMAIN promises[i].out
    /\ promises[i].page = "closed"
    /\ j \in OpenPages

(***************************************************************************)
(* C18.  isFragmentValid.                                                  *)
(***************************************************************************)
\* C18: isFragmentValid is fail-closed: it gives true exactly when the query
\* evaluates and matches an element; when no element matches or the query
\* cannot be evaluated it gives false and raises nothing, in the samePage
\* loop as in a validation.
C18_FragmentCheckFailsClosed ==
  /\ (phase = "samePage" /\ gen = "yield") =>
       /\ evaluated \in EvalOutcomes
       /\ entries[Len(entries)].output.fragExists = (evaluated = "match")
       /\ caughtError = "none"
  /\ \A i \in Lanes :
       promises[i].eval # "none" =>
         /\ promises[i].frag = (IF promises[i].eval = "match" THEN "true" ELSE "false")
         /\ promises[i].pc \in {"body", "close"}
         /\ promises[i].pc = "close" =>
              /\ "fragExists" \in DOMAIN promises[i].out
              /\ promises[i].out.fragExists = (promises[i].eval = "match")

\* A query of the samePage loop that could not be evaluated gave the entry
\* fragExists false, after a query that matched, and the run goes on.
C18_Witness ==
  /\ phase = "samePage" /\ gen = "yield"
  /\ evaluated = "evalError"
  /\ Len(entries) = 2
  /\ entries[1].output = [pageExists |-> TRUE, fragExists |-> TRUE]
  /\ entries[2].output = [pageExists |-> TRUE, fragExists |-> FALSE]
  /\ caughtError = "none"

(***************************************************************************)
(* C19.  The stream ends.                                                  *)
(***************************************************************************)
\* C19: when the consumer keeps pulling and every awaited call settles, by
\* resolving or by rejecting, checkLinks eventually ends its stream with the
\* session released: the scheduler never waits forever on a promise.
C19_StreamEventuallyEnds ==
  <>(gen = "done" /\ browser \in {"none", "closed"})

(***************************************************************************)
(* C20.  The session and the validations in flight.                        *)
(***************************************************************************)
\* C20: on every exit path, the consumer's early return included, the
\* session is released only when no validation is in flight, and none is
\* started afterwards: from the call of browser.close() on, no lane is in
\* flight.
C20_ReleasedOnlyWhenIdle ==
  browser \in {"closing", "closed"} => InFlightLanes = {}
====
